---- MODULE Spec2Model ----
(***************************************************************************)
(* The /api/generate handler of main.py (generate_image) as a state        *)
(* machine: FastAPI's validation of the JSON body against GenerateRequest, *)
(* the handler's own prompt check, provider resolution, the best-effort    *)
(* storage write, the live call to the Stability API, the seeded Picsum    *)
(* call and the embedded one-pixel PNG.                                     *)
(*                                                                         *)
(* Python strings and bytes are sequences (of one-character strings, of    *)
(* integers 0..255); an Optional value is None (the empty sequence) or     *)
(* Some(x) (the one-element sequence <<x>>).                               *)
(***************************************************************************)
EXTENDS Integers, Sequences, FiniteSets, TLC

VARIABLES
    pc,             \* where each request is: idle, handler, persist, live, demo, done
    body,           \* the JSON body the request arrived with
    req,            \* the validated GenerateRequest
    prompt,         \* local prompt (line 93)
    stability_key,  \* local stability_key (line 97)
    provider,       \* local provider (lines 98, 152)
    doc_id,         \* local _id (lines 105, 107)
    seed,           \* local seed (line 155)
    response,       \* what the client receives
    dbCalls,        \* storage attempts made for the request, in order
    liveCalls,      \* POSTs to the Stability API made for the request, in order
    stockCalls      \* GETs to picsum.photos made for the request, in order

vars == <<pc, body, req, prompt, stability_key, provider, doc_id, seed,
          response, dbCalls, liveCalls, stockCalls>>

----------------------------------------------------------------------------
(* Optional values                                                         *)

None == <<>>
Some(x) == <<x>>
Val(o) == o[1]

\* Python truthiness of an Optional[str]: None and "" are falsy.
Truthy(o) == o # None /\ Val(o) # <<>>

----------------------------------------------------------------------------
(* Bounds and program constants                                            *)

MaxPromptLen == 4

MinPromptLen == 3
MinDim == 128
MaxDim == 1024
DefaultDim == 512
HttpOk == 200

STABILITY == <<"s", "t", "a", "b", "i", "l", "i", "t", "y">>
DEMO == <<"d", "e", "m", "o">>
MODEL_NAME == "stable-image-core"
NOTE == "Running in demo mode without an AI key. Set STABILITY_API_KEY to enable real image generation."

----------------------------------------------------------------------------
(* str.strip, str.lower                                                    *)

Whitespace == {" ", "\t", "\n"}

RECURSIVE LStrip(_)
LStrip(s) ==
    IF s # <<>> /\ Head(s) \in Whitespace THEN LStrip(Tail(s)) ELSE s

RECURSIVE RStrip(_)
RStrip(s) ==
    IF s # <<>> /\ s[Len(s)] \in Whitespace
    THEN RStrip(SubSeq(s, 1, Len(s) - 1))
    ELSE s

Strip(s) == RStrip(LStrip(s))

UpperCase == <<"A", "B", "C", "D", "E", "F", "G", "H", "I", "J", "K", "L", "M", "N", "O", "P", "Q", "R", "S", "T", "U", "V", "W", "X", "Y", "Z">>
LowerCase == <<"a", "b", "c", "d", "e", "f", "g", "h", "i", "j", "k", "l", "m", "n", "o", "p", "q", "r", "s", "t", "u", "v", "w", "x", "y", "z">>

LowerChar(c) ==
    IF \E i \in DOMAIN UpperCase : UpperCase[i] = c
    THEN LowerCase[CHOOSE i \in DOMAIN UpperCase : UpperCase[i] = c]
    ELSE c

Lower(s) == [i \in DOMAIN s |-> LowerChar(s[i])]

----------------------------------------------------------------------------
(* base64.b64encode(...).decode("utf-8")                                   *)

B64Alphabet == <<
    "A", "B", "C", "D", "E", "F", "G", "H", "I", "J", "K", "L", "M", "N", "O", "P",
    "Q", "R", "S", "T", "U", "V", "W", "X", "Y", "Z", "a", "b", "c", "d", "e", "f",
    "g", "h", "i", "j", "k", "l", "m", "n", "o", "p", "q", "r", "s", "t", "u", "v",
    "w", "x", "y", "z", "0", "1", "2", "3", "4", "5", "6", "7", "8", "9", "+", "/"
>>

B64Char(n) == B64Alphabet[(n % 64) + 1]

RECURSIVE B64Encode(_)
B64Encode(bytes) ==
    IF bytes = <<>> THEN <<>>
    ELSE IF Len(bytes) = 1 THEN
        LET n == bytes[1] * 65536
        IN  <<B64Char(n \div 262144), B64Char(n \div 4096), "=", "=">>
    ELSE IF Len(bytes) = 2 THEN
        LET n == bytes[1] * 65536 + bytes[2] * 256
        IN  <<B64Char(n \div 262144), B64Char(n \div 4096), B64Char(n \div 64), "=">>
    ELSE
        LET n == bytes[1] * 65536 + bytes[2] * 256 + bytes[3]
        IN  <<B64Char(n \div 262144), B64Char(n \div 4096), B64Char(n \div 64), B64Char(n)>>
            \o B64Encode(SubSeq(bytes, 4, Len(bytes)))

\* The embedded 1x1 PNG of the final fallback.
FallbackPng == <<
    137, 80, 78, 71, 13, 10, 26, 10, 0, 0, 0, 13, 73, 72, 68, 82, 0, 0,
    0, 1, 0, 0, 0, 1, 8, 6, 0, 0, 0, 31, 21, 196, 137, 0, 0, 0,
    12, 73, 68, 65, 84, 120, 156, 99, 248, 15, 4, 0, 9, 251, 3, 253, 134, 87,
    198, 122, 0, 0, 0, 0, 73, 69, 78, 68, 174, 66, 96, 130
>>

FallbackB64 == B64Encode(FallbackPng)

----------------------------------------------------------------------------
(* int(hashlib.sha256(prompt.encode("utf-8")).hexdigest(), 16) % (10**8),  *)
(* tabulated from hashlib for every stripped prompt over the alphabet      *)
(* {" ", "a"} of length 1..5.                                              *)

Sha256Mod(bytes) ==
    CASE bytes = <<"a">> -> 56493499
      [] bytes = <<"a", "a">> -> 69739014
      [] bytes = <<"a", " ", "a">> -> 91169569
      [] bytes = <<"a", "a", "a">> -> 39873520
      [] bytes = <<"a", " ", " ", "a">> -> 19726404
      [] bytes = <<"a", " ", "a", "a">> -> 82567459
      [] bytes = <<"a", "a", " ", "a">> -> 35009309
      [] bytes = <<"a", "a", "a", "a">> -> 88763828
      [] bytes = <<"a", " ", " ", " ", "a">> -> 81382560
      [] bytes = <<"a", " ", " ", "a", "a">> -> 67064761
      [] bytes = <<"a", " ", "a", " ", "a">> -> 68762194
      [] bytes = <<"a", " ", "a", "a", "a">> -> 10446794
      [] bytes = <<"a", "a", " ", " ", "a">> -> 81587925
      [] bytes = <<"a", "a", " ", "a", "a">> -> 70455263
      [] bytes = <<"a", "a", "a", " ", "a">> -> 27745403
      [] bytes = <<"a", "a", "a", "a", "a">> -> 4821218

----------------------------------------------------------------------------
(* JSON bodies and their validation against GenerateRequest (lines 21-25)  *)

Missing == <<"missing">>
JNull == <<"null">>
JStr(s) == <<"str", s>>
JInt(n) == <<"int", n>>

\* prompt: str = Field(..., min_length=3): required, a string, raw length >= 3.
ValidPrompt(f) == f[1] = "str" /\ Len(f[2]) >= MinPromptLen

\* provider: Optional[str] = Field(None)
ValidProvider(f) == f[1] \in {"missing", "null", "str"}

\* width, height: Optional[int] = Field(512, ge=128, le=1024): the range
\* constrains an integer; an explicit null is a valid Optional value.
ValidDim(f) ==
    \/ f[1] \in {"missing", "null"}
    \/ f[1] = "int" /\ f[2] >= MinDim /\ f[2] <= MaxDim

Validates(b) ==
    /\ ValidPrompt(b.prompt)
    /\ ValidProvider(b.provider)
    /\ ValidDim(b.width)
    /\ ValidDim(b.height)

ParseProvider(f) == IF f[1] = "str" THEN Some(f[2]) ELSE None

ParseDim(f) ==
    IF f[1] = "missing" THEN Some(DefaultDim)
    ELSE IF f[1] = "null" THEN None
    ELSE Some(f[2])

GenerateRequest(b) ==
    [prompt   |-> b.prompt[2],
     provider |-> ParseProvider(b.provider),
     width    |-> ParseDim(b.width),
     height   |-> ParseDim(b.height)]

----------------------------------------------------------------------------
(* Responses                                                               *)

NoResponse ==
    [kind |-> "none", status |-> 0, image_b64 |-> <<>>, provider |-> <<>>,
     model |-> None, mode |-> "", note |-> None]

\* FastAPI's answer to a raised HTTPException or a failed validation.
ErrorResponse(status) ==
    [kind |-> "error", status |-> status, image_b64 |-> <<>>, provider |-> <<>>,
     model |-> None, mode |-> "", note |-> None]

\* A faulty variant of the response below: the note is left out.
GenerateResponse_DropsNote(image_b64, prov, model, mode, note) ==
    [kind |-> "ok", status |-> HttpOk, image_b64 |-> image_b64, provider |-> prov,
     model |-> model, mode |-> mode, note |-> None]

GenerateResponse(image_b64, prov, model, mode, note) ==
    [kind |-> "ok", status |-> HttpOk, image_b64 |-> image_b64, provider |-> prov,
     model |-> model, mode |-> mode, note |-> note]

----------------------------------------------------------------------------
(* What the environment may supply                                         *)

Reqs == {"r1", "r2"}
Solo == {"r1"}

Chars == {" ", "a"}
Strings(n) == UNION {[1..k -> Chars] : k \in 0..n}

PromptFields == {Missing} \cup {JStr(s) : s \in Strings(MaxPromptLen)}
ProviderFields ==
    {Missing, JStr(<<>>), JStr(DEMO), JStr(STABILITY),
     JStr(<<"S", "t", "a", "b", "i", "l", "i", "t", "y">>),
     JStr(<<"f", "o", "o">>)}
DimFields == {Missing, JNull, JInt(MinDim - 1), JInt(MinDim), JInt(MaxDim), JInt(MaxDim + 1)}

Bodies ==
    [prompt : PromptFields, provider : ProviderFields, width : DimFields, height : DimFields]

PairBodies ==
    [prompt   : {JStr(<<"a", "a", "a">>), JStr(<<"a", " ", "a">>)},
     provider : {Missing, JStr(DEMO)},
     width    : {Missing, JInt(MinDim)},
     height   : {Missing}]

\* os.getenv("STABILITY_API_KEY"): unset, set to "", or set to a key.
Keys == {None, Some(<<>>), Some(<<"s", "k">>)}

Contents == {<<>>, <<137, 80, 78, 71>>}
LiveStatuses == {200, 201, 500}
StockStatuses == {200, 304, 404}

\* An outbound call raises (timeout, connection error) or returns a response.
Outcomes(statuses) ==
    {[kind |-> k, status |-> 0, content |-> <<>>] : k \in {"timeout", "connection"}}
    \cup [kind : {"response"}, status : statuses, content : Contents]

\* A faulty variant of the check below: every response raises.
RaisesForStatus_Any(status) == status >= 200

\* requests' Response.raise_for_status raises for 4xx and 5xx only.
RaisesForStatus(status) == status >= 400 /\ status < 600

----------------------------------------------------------------------------
(* Initial state                                                           *)

Init ==
    /\ pc = [r \in Reqs |-> "idle"]
    /\ body = [r \in Reqs |-> None]
    /\ req = [r \in Reqs |-> None]
    /\ prompt = [r \in Reqs |-> <<>>]
    /\ stability_key = [r \in Reqs |-> None]
    /\ provider = [r \in Reqs |-> <<>>]
    /\ doc_id = [r \in Reqs |-> None]
    /\ seed = [r \in Reqs |-> None]
    /\ response = [r \in Reqs |-> NoResponse]
    /\ dbCalls = [r \in Reqs |-> <<>>]
    /\ liveCalls = [r \in Reqs |-> <<>>]
    /\ stockCalls = [r \in Reqs |-> <<>>]

----------------------------------------------------------------------------
(* The request arrives: FastAPI validates the body (422 on failure) and    *)
(* calls generate_image with the model.                                    *)

Accept(r, bodies) ==
    /\ pc[r] = "idle"
    /\ \E b \in bodies :
        /\ body' = [body EXCEPT ![r] = Some(b)]
        /\ IF Validates(b)
           THEN /\ req' = [req EXCEPT ![r] = Some(GenerateRequest(b))]
                /\ pc' = [pc EXCEPT ![r] = "handler"]
                /\ UNCHANGED response
           ELSE /\ response' = [response EXCEPT ![r] = ErrorResponse(422)]
                /\ pc' = [pc EXCEPT ![r] = "done"]
                /\ UNCHANGED req
    /\ UNCHANGED <<prompt, stability_key, provider, doc_id, seed,
                   dbCalls, liveCalls, stockCalls>>

Receive(r) == Accept(r, Bodies)

ReceivePair(r) == Accept(r, PairBodies)

----------------------------------------------------------------------------
(* Lines 93-98: strip the prompt, reject an empty one, resolve provider.   *)

\* A faulty variant of the check below: the empty prompt is let through.
IsEmptyPrompt_Never(p) == FALSE

\* `if not prompt`
IsEmptyPrompt(p) == p = <<>>

\* A faulty variant of the resolution below: the hint is not lower-cased.
ResolveProvider_NoLower(hint, key) ==
    IF Truthy(hint) THEN Val(hint)
    ELSE IF Truthy(key) THEN STABILITY ELSE DEMO

\* (req.provider or ("stability" if stability_key else "demo")).lower()
ResolveProvider(hint, key) ==
    Lower(IF Truthy(hint) THEN Val(hint)
          ELSE IF Truthy(key) THEN STABILITY ELSE DEMO)

Start(r) ==
    /\ pc[r] = "handler"
    /\ LET p == Strip(Val(req[r]).prompt) IN
        /\ prompt' = [prompt EXCEPT ![r] = p]
        /\ IF IsEmptyPrompt(p)
           THEN /\ response' = [response EXCEPT ![r] = ErrorResponse(400)]
                /\ pc' = [pc EXCEPT ![r] = "done"]
                /\ UNCHANGED <<stability_key, provider>>
           ELSE /\ \E key \in Keys :
                    /\ stability_key' = [stability_key EXCEPT ![r] = key]
                    /\ provider' = [provider EXCEPT ![r] =
                                       ResolveProvider(Val(req[r]).provider, key)]
                /\ pc' = [pc EXCEPT ![r] = "persist"]
                /\ UNCHANGED response
    /\ UNCHANGED <<body, req, doc_id, seed, dbCalls, liveCalls, stockCalls>>

----------------------------------------------------------------------------
(* Lines 100-109: the best-effort storage write, then the choice of path.  *)

\* A faulty variant of the condition below: the credential is not looked at.
UseLive_IgnoresKey(prov, key) == prov = STABILITY

\* `if provider == "stability" and stability_key`
UseLive(prov, key) == prov = STABILITY /\ Truthy(key)

\* A faulty variant of the step below: the write is attempted on the demo
\* path only.
Persist_OnlyOnDemoPath(r) ==
    /\ pc[r] = "persist"
    /\ IF UseLive(provider[r], stability_key[r])
       THEN /\ pc' = [pc EXCEPT ![r] = "live"]
            /\ UNCHANGED <<doc_id, dbCalls>>
       ELSE /\ \E o \in {"absent", "fail", "ok"} :
                /\ doc_id' = [doc_id EXCEPT ![r] = IF o = "ok" THEN Some("oid") ELSE None]
                /\ dbCalls' = [dbCalls EXCEPT ![r] =
                      Append(@, [op |-> "create_document", outcome |-> o,
                                 prompt |-> prompt[r], provider |-> provider[r],
                                 width |-> Val(req[r]).width,
                                 height |-> Val(req[r]).height])]
            /\ pc' = [pc EXCEPT ![r] = "demo"]
    /\ UNCHANGED <<body, req, prompt, stability_key, provider, seed, response,
                   liveCalls, stockCalls>>

\* A faulty variant of the step below: a failed write is not swallowed and
\* ends the request in a 500 error.
Persist_FailureSurfaces(r) ==
    /\ pc[r] = "persist"
    /\ \E o \in {"absent", "fail", "ok"} :
        /\ doc_id' = [doc_id EXCEPT ![r] = IF o = "ok" THEN Some("oid") ELSE None]
        /\ dbCalls' = [dbCalls EXCEPT ![r] =
              Append(@, [op |-> "create_document", outcome |-> o,
                         prompt |-> prompt[r], provider |-> provider[r],
                         width |-> Val(req[r]).width,
                         height |-> Val(req[r]).height])]
        /\ IF o = "fail"
           THEN /\ response' = [response EXCEPT ![r] = ErrorResponse(500)]
                /\ pc' = [pc EXCEPT ![r] = "done"]
           ELSE /\ pc' = [pc EXCEPT ![r] =
                      IF UseLive(provider[r], stability_key[r]) THEN "live" ELSE "demo"]
                /\ UNCHANGED response
    /\ UNCHANGED <<body, req, prompt, stability_key, provider, seed,
                   liveCalls, stockCalls>>

\* One attempt, logged with how it ended: "absent": the import or the
\* document's construction raises, nothing is written; "fail":
\* create_document raises; "ok": it returns an id.
Persist(r) ==
    /\ pc[r] = "persist"
    /\ \E o \in {"absent", "fail", "ok"} :
        /\ doc_id' = [doc_id EXCEPT ![r] = IF o = "ok" THEN Some("oid") ELSE None]
        /\ dbCalls' = [dbCalls EXCEPT ![r] =
              Append(@, [op |-> "create_document", outcome |-> o,
                         prompt |-> prompt[r], provider |-> provider[r],
                         width |-> Val(req[r]).width,
                         height |-> Val(req[r]).height])]
    /\ pc' = [pc EXCEPT ![r] =
                 IF UseLive(provider[r], stability_key[r]) THEN "live" ELSE "demo"]
    /\ UNCHANGED <<body, req, prompt, stability_key, provider, seed, response,
                   liveCalls, stockCalls>>

----------------------------------------------------------------------------
(* Lines 110-153: the live call.                                           *)

\* A faulty variant of the parameter below: only a square request is sent
\* as 1:1, any other keeps the ratio of line 118.
AspectRatio_KeepsRequested(width, height) ==
    IF width = height THEN "1:1" ELSE "width:height"

\* Lines 118-125: both branches send 1:1.
AspectRatio(width, height) == IF width = height THEN "1:1" ELSE "1:1"

\* `if resp.status_code != 200: raise HTTPException(...)`
LiveRejected(status) == status # HttpOk

\* A faulty variant of the step below: after a transport error the live
\* call is tried again, for as long as it fails (only the last call is kept).
LiveCall_RetriesOnError(r) ==
    /\ pc[r] = "live"
    /\ \E out \in Outcomes(LiveStatuses), upd \in {"absent", "fail", "ok"} :
        /\ liveCalls' = [liveCalls EXCEPT ![r] =
              Append(<<>>, [prompt |-> prompt[r], output_format |-> "png",
                         aspect_ratio |-> AspectRatio(Val(req[r]).width, Val(req[r]).height),
                         bearer |-> stability_key[r],
                         outcome |-> out.kind, status |-> out.status,
                         content |-> out.content])]
        /\ IF out.kind # "response"
           THEN \* the call is tried again
                /\ provider' = [provider EXCEPT ![r] = DEMO]
                /\ pc' = [pc EXCEPT ![r] = "live"]
                /\ UNCHANGED <<response, dbCalls>>
           ELSE IF LiveRejected(out.status)
           THEN \* the HTTPException is re-raised by `except HTTPException: raise`
                /\ response' = [response EXCEPT ![r] = ErrorResponse(500)]
                /\ pc' = [pc EXCEPT ![r] = "done"]
                /\ UNCHANGED <<provider, dbCalls>>
           ELSE /\ dbCalls' = [dbCalls EXCEPT ![r] =
                      IF doc_id[r] = None \/ upd = "absent" THEN @
                      ELSE Append(@, [op |-> "update_one", outcome |-> upd,
                                      prompt |-> <<>>, provider |-> <<>>,
                                      width |-> None, height |-> None])]
                /\ response' = [response EXCEPT ![r] =
                      GenerateResponse(B64Encode(out.content), STABILITY,
                                       Some(MODEL_NAME), "live", None)]
                /\ pc' = [pc EXCEPT ![r] = "done"]
                /\ UNCHANGED provider
    /\ UNCHANGED <<body, req, prompt, stability_key, doc_id, seed, stockCalls>>

\* A faulty variant of the step below: provider is a module-level variable,
\* so the fallback relabels every request in flight.
LiveCall_RelabelsAll(r) ==
    /\ pc[r] = "live"
    /\ \E out \in Outcomes(LiveStatuses), upd \in {"absent", "fail", "ok"} :
        /\ liveCalls' = [liveCalls EXCEPT ![r] =
              Append(@, [prompt |-> prompt[r], output_format |-> "png",
                         aspect_ratio |-> AspectRatio(Val(req[r]).width, Val(req[r]).height),
                         bearer |-> stability_key[r],
                         outcome |-> out.kind, status |-> out.status,
                         content |-> out.content])]
        /\ IF out.kind # "response"
           THEN \* except Exception: provider = "demo", fall through
                /\ provider' = [q \in Reqs |-> DEMO]
                /\ pc' = [pc EXCEPT ![r] = "demo"]
                /\ UNCHANGED <<response, dbCalls>>
           ELSE IF LiveRejected(out.status)
           THEN \* the HTTPException is re-raised by `except HTTPException: raise`
                /\ response' = [response EXCEPT ![r] = ErrorResponse(500)]
                /\ pc' = [pc EXCEPT ![r] = "done"]
                /\ UNCHANGED <<provider, dbCalls>>
           ELSE /\ dbCalls' = [dbCalls EXCEPT ![r] =
                      IF doc_id[r] = None \/ upd = "absent" THEN @
                      ELSE Append(@, [op |-> "update_one", outcome |-> upd,
                                      prompt |-> <<>>, provider |-> <<>>,
                                      width |-> None, height |-> None])]
                /\ response' = [response EXCEPT ![r] =
                      GenerateResponse(B64Encode(out.content), STABILITY,
                                       Some(MODEL_NAME), "live", None)]
                /\ pc' = [pc EXCEPT ![r] = "done"]
                /\ UNCHANGED provider
    /\ UNCHANGED <<body, req, prompt, stability_key, doc_id, seed, stockCalls>>

LiveCall(r) ==
    /\ pc[r] = "live"
    /\ \E out \in Outcomes(LiveStatuses), upd \in {"absent", "fail", "ok"} :
        /\ liveCalls' = [liveCalls EXCEPT ![r] =
              Append(@, [prompt |-> prompt[r], output_format |-> "png",
                         aspect_ratio |-> AspectRatio(Val(req[r]).width, Val(req[r]).height),
                         bearer |-> stability_key[r],
                         outcome |-> out.kind, status |-> out.status,
                         content |-> out.content])]
        /\ IF out.kind # "response"
           THEN \* except Exception: provider = "demo", fall through
                /\ provider' = [provider EXCEPT ![r] = DEMO]
                /\ pc' = [pc EXCEPT ![r] = "demo"]
                /\ UNCHANGED <<response, dbCalls>>
           ELSE IF LiveRejected(out.status)
           THEN \* the HTTPException is re-raised by `except HTTPException: raise`
                /\ response' = [response EXCEPT ![r] = ErrorResponse(500)]
                /\ pc' = [pc EXCEPT ![r] = "done"]
                /\ UNCHANGED <<provider, dbCalls>>
           ELSE /\ dbCalls' = [dbCalls EXCEPT ![r] =
                      IF doc_id[r] = None \/ upd = "absent" THEN @
                      ELSE Append(@, [op |-> "update_one", outcome |-> upd,
                                      prompt |-> <<>>, provider |-> <<>>,
                                      width |-> None, height |-> None])]
                /\ response' = [response EXCEPT ![r] =
                      GenerateResponse(B64Encode(out.content), STABILITY,
                                       Some(MODEL_NAME), "live", None)]
                /\ pc' = [pc EXCEPT ![r] = "done"]
                /\ UNCHANGED provider
    /\ UNCHANGED <<body, req, prompt, stability_key, doc_id, seed, stockCalls>>

----------------------------------------------------------------------------
(* Lines 154-166: the seeded stock image, else the embedded PNG.           *)

\* A faulty variant of the seed below: the requested width is mixed in.
Seed_WithWidth(r) ==
    LET w == Val(req[r]).width
    IN  (Sha256Mod(prompt[r]) + (IF w = None THEN 0 ELSE Val(w))) % 100000000

\* seed = int(sha256(prompt.encode("utf-8")).hexdigest(), 16) % (10**8)
Seed(r) == Sha256Mod(prompt[r])

\* A faulty variant of the URL below: the width is used for both dimensions.
DemoUrl_Square(r) ==
    [seed |-> Seed(r), width |-> Val(req[r]).width, height |-> Val(req[r]).width]

\* demo_url = f"https://picsum.photos/seed/{seed}/{req.width}/{req.height}"
DemoUrl(r) ==
    [seed |-> Seed(r), width |-> Val(req[r]).width, height |-> Val(req[r]).height]

DemoCall(r) ==
    /\ pc[r] = "demo"
    /\ seed' = [seed EXCEPT ![r] = Some(Seed(r))]
    /\ \E out \in Outcomes(StockStatuses) :
        /\ stockCalls' = [stockCalls EXCEPT ![r] =
              Append(@, [url |-> DemoUrl(r), outcome |-> out.kind,
                         status |-> out.status, content |-> out.content])]
        /\ LET img_b64 ==
                 IF out.kind # "response" \/ RaisesForStatus(out.status)
                 THEN FallbackB64
                 ELSE B64Encode(out.content)
           IN  response' = [response EXCEPT ![r] =
                   GenerateResponse(img_b64, provider[r], None, "demo", Some(NOTE))]
    /\ pc' = [pc EXCEPT ![r] = "done"]
    /\ UNCHANGED <<body, req, prompt, stability_key, provider, doc_id,
                   dbCalls, liveCalls>>

----------------------------------------------------------------------------
(* Specifications: one request; two requests whose steps interleave.       *)

Next ==
    \E r \in Solo :
        \/ Receive(r)
        \/ Start(r)
        \/ Persist(r)
        \/ LiveCall(r)
        \/ DemoCall(r)

Spec == Init /\ [][Next]_vars

NextPair ==
    \E r \in Reqs :
        \/ ReceivePair(r)
        \/ Start(r)
        \/ Persist(r)
        \/ LiveCall(r)
        \/ DemoCall(r)

SpecPair == Init /\ [][NextPair]_vars

\* The handler runs to its end once called: every statement is executed in
\* turn, and each outbound call returns or raises (timeout=120, timeout=30).
Fairness ==
    \A r \in Solo :
        /\ WF_vars(Start(r))
        /\ WF_vars(Persist(r))
        /\ WF_vars(LiveCall(r))
        /\ WF_vars(DemoCall(r))

FairSpec == Init /\ [][Next]_vars /\ Fairness

----------------------------------------------------------------------------
(* Vocabulary of the properties                                            *)

Done(r) == pc[r] = "done"
IsResult(r) == response[r].kind = "ok"
Orchestrating(r) == pc[r] \in {"persist", "live", "demo"}
NoCalls(r) == dbCalls[r] = <<>> /\ liveCalls[r] = <<>> /\ stockCalls[r] = <<>>

Is2xx(status) == status >= 200 /\ status < 300

\* The live call was made and ended in a transport error, a timeout or a
\* non-2xx response.
LiveFailed(r) ==
    /\ liveCalls[r] # <<>>
    /\ LET c == liveCalls[r][Len(liveCalls[r])]
       IN  c.outcome # "response" \/ ~Is2xx(c.status)

\* The stock-image call was made and ended in a transport error, a timeout
\* or a non-2xx response.
StockFailed(r) ==
    /\ stockCalls[r] # <<>>
    /\ LET c == stockCalls[r][Len(stockCalls[r])]
       IN  c.outcome # "response" \/ ~Is2xx(c.status)

\* The prompt the request arrived with is empty once stripped.
BlankPrompt(r) ==
    /\ body[r] # None
    /\ Val(body[r]).prompt[1] = "str"
    /\ Strip(Val(body[r]).prompt[2]) = <<>>

----------------------------------------------------------------------------
(* C1: a request whose live call failed (non-2xx response, transport       *)
(* error, timeout) ends in a successful result with mode = demo, never in  *)
(* an error response.  The code re-raises the HTTPException it builds for  *)
(* a non-200 response, so this is violated.                                *)
C1_LiveFailureEndsInDemo ==
    \A r \in Reqs :
        Done(r) /\ LiveFailed(r) => IsResult(r) /\ response[r].mode = "demo"

(* C2: every result carries non-empty image data, whatever body the live   *)
(* or stock-image service returned with a success status.  An empty body   *)
(* is encoded to the empty string, so this is violated.                    *)
C2_ImageNeverEmpty ==
    \A r \in Reqs : IsResult(r) => response[r].image_b64 # <<>>

(* C3: with no credential configured (unset or empty), whatever the        *)
(* provider hint, no live call is made or pending, and a result has        *)
(* mode = demo and a non-empty note.                                       *)
C3_NoCredentialMeansDemo ==
    \A r \in Reqs :
        ~Truthy(stability_key[r]) =>
            /\ pc[r] # "live"
            /\ liveCalls[r] = <<>>
            /\ IsResult(r) =>
                /\ response[r].mode = "demo"
                /\ response[r].note # None
                /\ Val(response[r].note) # ""

\* A request hinting "Stability", served without a credential, has ended
\* in a demo result after its stock-image call.
C3_Witness ==
    \E r \in Reqs :
        /\ Done(r) /\ IsResult(r)
        /\ stability_key[r] = None
        /\ Val(req[r]).provider = Some(<<"S", "t", "a", "b", "i", "l", "i", "t", "y">>)
        /\ provider[r] = STABILITY
        /\ stockCalls[r] # <<>>
        /\ response[r].mode = "demo"

(* C4: after a failed live call the request returns a result labelled      *)
(* provider = demo.  Violated: after a non-200 response the label is left  *)
(* alone and the request ends in the 500 error of C1.                      *)
C4_FailedLiveIsLabelledDemo ==
    \A r \in Reqs :
        Done(r) /\ LiveFailed(r) => IsResult(r) /\ response[r].provider = DEMO

(* C5: whenever the stock-image fetch failed (non-2xx or transport error), *)
(* the result has mode = demo, the embedded image and the demo note.       *)
(* Violated: raise_for_status lets a 3xx response through and its body is  *)
(* returned as the image.                                                  *)
C5_StockFailureUsesEmbeddedImage ==
    \A r \in Reqs :
        Done(r) /\ StockFailed(r) =>
            /\ IsResult(r)
            /\ response[r].mode = "demo"
            /\ response[r].image_b64 = FallbackB64
            /\ response[r].note = Some(NOTE)

(* C6: the provider field of every result is "stability" or "demo".        *)
(* Violated: the demo result echoes the lower-cased hint, whatever it is.  *)
C6_ProviderIsRecognized ==
    \A r \in Reqs : IsResult(r) => response[r].provider \in {STABILITY, DEMO}

(* C7: a prompt that reaches the storage write, the live call or the       *)
(* stock-image call has length >= 3 after stripping.  Violated: the        *)
(* length is validated before the prompt is stripped.                      *)
C7_OrchestratedPromptHasMinLength ==
    \A r \in Reqs :
        Orchestrating(r) \/ ~NoCalls(r) => Len(prompt[r]) >= MinPromptLen

(* C8: a request whose prompt is empty after stripping makes no storage,   *)
(* live or stock-image call, never gets past the handler's prompt check,   *)
(* and ends in a 4xx error.                                                *)
C8_BlankPromptIsRejected ==
    \A r \in Reqs :
        BlankPrompt(r) =>
            /\ NoCalls(r)
            /\ pc[r] \in {"handler", "done"}
            /\ Done(r) =>
                /\ response[r].kind = "error"
                /\ response[r].status >= 400
                /\ response[r].status < 500

\* A prompt of three spaces passed the model's length check and was
\* rejected by the handler with 400.
C8_Witness ==
    \E r \in Reqs :
        /\ Done(r)
        /\ Val(body[r]).prompt = JStr(<<" ", " ", " ">>)
        /\ prompt[r] = <<>>
        /\ response[r] = ErrorResponse(400)

(* C9: a request that reaches the orchestration steps has an integer       *)
(* width and height in [128, 1024].  Violated: an explicit null passes     *)
(* the Optional[int] fields.                                               *)
C9_OrchestratedDimsInRange ==
    \A r \in Reqs :
        Orchestrating(r) =>
            /\ Val(req[r]).width # None
            /\ Val(req[r]).height # None
            /\ Val(Val(req[r]).width) \in MinDim..MaxDim
            /\ Val(Val(req[r]).height) \in MinDim..MaxDim

(* C10: two requests that arrived with the same prompt text have the same  *)
(* seed, whatever their hints, dimensions, credentials, storage outcomes   *)
(* and the way each reached the demo path.                                 *)
C10_SeedDependsOnPromptOnly ==
    \A r1, r2 \in Reqs :
        /\ seed[r1] # None
        /\ seed[r2] # None
        /\ Val(body[r1]).prompt = Val(body[r2]).prompt
        => seed[r1] = seed[r2]

\* Two finished requests with one prompt: one fell back after a failed
\* live call, the other had a demo hint; their widths and storage outcomes
\* differ too.
C10_Witness ==
    \E r1, r2 \in Reqs :
        /\ Done(r1) /\ Done(r2)
        /\ seed[r1] # None /\ seed[r2] # None
        /\ Val(body[r1]).prompt = Val(body[r2]).prompt
        /\ liveCalls[r1] # <<>> /\ liveCalls[r2] = <<>>
        /\ Truthy(stability_key[r1]) /\ ~Truthy(stability_key[r2])
        /\ Val(req[r1]).provider = None /\ Val(req[r2]).provider = Some(DEMO)
        /\ Val(req[r1]).width # Val(req[r2]).width
        /\ doc_id[r1] # doc_id[r2]

(* C11: the storage outcome never alters the result.  Of two finished      *)
(* requests with the same body and the same credential, whatever happened  *)
(* to their storage writes and updates: both made a live call or neither   *)
(* did; if their live calls and answers are the same, both made a stock    *)
(* call or neither did; and if their stock calls and answers are the same  *)
(* too, their responses are the same.                                      *)
C11_PersistenceNeverAltersResult ==
    \A r1, r2 \in Reqs :
        /\ Done(r1) /\ Done(r2)
        /\ body[r1] = body[r2]
        /\ stability_key[r1] = stability_key[r2]
        => /\ liveCalls[r1] = <<>> <=> liveCalls[r2] = <<>>
           /\ liveCalls[r1] = liveCalls[r2] =>
                /\ stockCalls[r1] = <<>> <=> stockCalls[r2] = <<>>
                /\ stockCalls[r1] = stockCalls[r2] => response[r1] = response[r2]

\* Two live results of one body, key and live answer: one request wrote
\* its record and then failed the update, for the other the storage module
\* was absent.
C11_Witness ==
    \E r1, r2 \in Reqs :
        /\ Done(r1) /\ Done(r2)
        /\ body[r1] = body[r2]
        /\ stability_key[r1] = stability_key[r2]
        /\ liveCalls[r1] = liveCalls[r2]
        /\ liveCalls[r1] # <<>>
        /\ response[r1].mode = "live"
        /\ Len(dbCalls[r1]) = 2
        /\ dbCalls[r1][1].outcome = "ok"
        /\ dbCalls[r1][2].outcome = "fail"
        /\ dbCalls[r2][1].outcome = "absent"

\* The static image was used: the result carries the embedded PNG (no
\* service answer of Contents is that PNG).
StaticUsed(r) == IsResult(r) /\ response[r].image_b64 = FallbackB64

Rank(p) ==
    CASE p = "idle" -> 0 [] p = "handler" -> 1 [] p = "persist" -> 2
      [] p = "live" -> 3 [] p = "demo" -> 4 [] p = "done" -> 5

(* C12: within a request the tiers are tried in the order live, stock      *)
(* image, static image, forward only: at most one live and one stock       *)
(* call, the live call only before any stock call, a stock call after a    *)
(* live call only when that call failed, the static image only after the   *)
(* stock call failed, and no step back to an earlier position.             *)
C12_TiersForwardOnly ==
    /\ [](\A r \in Reqs :
            /\ Len(liveCalls[r]) <= 1
            /\ Len(stockCalls[r]) <= 1
            /\ pc[r] = "live" => liveCalls[r] = <<>> /\ stockCalls[r] = <<>>
            /\ pc[r] = "demo" => stockCalls[r] = <<>>
            /\ (pc[r] = "demo" \/ stockCalls[r] # <<>>) /\ liveCalls[r] # <<>>
                  => LiveFailed(r)
            /\ StaticUsed(r) => StockFailed(r))
    /\ [][\A r \in Reqs :
            /\ Rank(pc'[r]) >= Rank(pc[r])
            /\ Done(r) => /\ liveCalls'[r] = liveCalls[r]
                          /\ stockCalls'[r] = stockCalls[r]
                          /\ response'[r] = response[r]]_vars

\* A request went through all three tiers: its live call timed out, its
\* stock call was answered 404, and the result carries the embedded PNG.
C12_Witness ==
    \E r \in Reqs :
        /\ Done(r)
        /\ Len(liveCalls[r]) = 1 /\ liveCalls[r][1].outcome = "timeout"
        /\ Len(stockCalls[r]) = 1 /\ stockCalls[r][1].status = 404
        /\ StaticUsed(r)

(* C13: in every result the model identifier is present exactly when      *)
(* mode = live and the note exactly when mode = demo.                      *)
C13_ModelIffLiveNoteIffDemo ==
    \A r \in Reqs :
        IsResult(r) =>
            /\ response[r].mode \in {"live", "demo"}
            /\ response[r].model # None <=> response[r].mode = "live"
            /\ response[r].note # None <=> response[r].mode = "demo"

\* A demo result reached after a failed live call carries the note and no
\* model.
C13_Witness ==
    \E r \in Reqs :
        /\ IsResult(r)
        /\ liveCalls[r] # <<>>
        /\ response[r].mode = "demo"
        /\ response[r].note = Some(NOTE)
        /\ response[r].model = None

\* Everything the handler holds for one request.
Local(r) ==
    <<pc[r], body[r], req[r], prompt[r], stability_key[r], provider[r], doc_id[r],
      seed[r], response[r], dbCalls[r], liveCalls[r], stockCalls[r]>>

\* The response of a finished request as a function of its own body, the
\* key it read and the answers its own calls got: what the handler returns
\* when it serves that request alone.
AloneResponse(r) ==
    LET b == Val(body[r]) IN
    IF ~Validates(b) THEN ErrorResponse(422)
    ELSE LET q == GenerateRequest(b)
             resolved == ResolveProvider(q.provider, stability_key[r])
         IN
         IF IsEmptyPrompt(Strip(q.prompt)) THEN ErrorResponse(400)
         ELSE IF UseLive(resolved, stability_key[r]) /\ liveCalls[r][1].outcome = "response"
         THEN IF LiveRejected(liveCalls[r][1].status)
              THEN ErrorResponse(500)
              ELSE GenerateResponse(B64Encode(liveCalls[r][1].content), STABILITY,
                                    Some(MODEL_NAME), "live", None)
         ELSE LET s == stockCalls[r][1]
                  img == IF s.outcome # "response" \/ RaisesForStatus(s.status)
                         THEN FallbackB64
                         ELSE B64Encode(s.content)
                  label == IF UseLive(resolved, stability_key[r]) THEN DEMO ELSE resolved
              IN  GenerateResponse(img, label, None, "demo", Some(NOTE))

(* C14: requests share no state.  A step changes what the handler holds    *)
(* for one request only, and however the steps of two requests            *)
(* interleave, a finished request has the response the handler returns     *)
(* when it serves that request alone with the same answers to its calls.   *)
C14_RequestsAreIndependent ==
    /\ [](\A r \in Reqs : Done(r) => response[r] = AloneResponse(r))
    /\ [][\A r1, r2 \in Reqs :
            r1 # r2 /\ Local(r1)' # Local(r1) => Local(r2)' = Local(r2)]_vars

\* Of two finished requests one fell back and was relabelled demo after
\* its live call timed out, the other ended in a live result labelled
\* stability.
C14_Witness ==
    \E r1, r2 \in Reqs :
        /\ r1 # r2
        /\ Done(r1) /\ Done(r2)
        /\ liveCalls[r1] # <<>> /\ liveCalls[r1][1].outcome = "timeout"
        /\ response[r1].provider = DEMO
        /\ response[r2].mode = "live"
        /\ response[r2].provider = STABILITY

\* The request is past the choice of path.
Routed(r) == pc[r] \in {"live", "demo"} \/ liveCalls[r] # <<>> \/ stockCalls[r] # <<>>

\* A live call is due or was issued.
LiveIssued(r) == pc[r] = "live" \/ liveCalls[r] # <<>>

\* The resolved provider as the claim words it: the lower-cased hint when
\* the body carries one, else by the credential.
HintedProvider(hint, key) ==
    IF hint # None THEN Lower(Val(hint))
    ELSE IF Truthy(key) THEN STABILITY ELSE DEMO

\* The same with an empty hint counted as no hint.
NonEmptyHintedProvider(hint, key) ==
    IF hint # None /\ Val(hint) # <<>> THEN Lower(Val(hint))
    ELSE IF Truthy(key) THEN STABILITY ELSE DEMO

(* C15, as claimed: a live call is issued if and only if a credential is   *)
(* configured and the resolved provider is "stability", the resolved       *)
(* provider being the lower-cased hint whenever a hint is given.           *)
(* Violated by the hint "": the code treats it as no hint and, with a      *)
(* credential, calls the live provider.                                    *)
C15_LiveIffCredentialAndHintedProvider ==
    \A r \in Reqs :
        Routed(r) =>
            (LiveIssued(r) <=>
                /\ Truthy(stability_key[r])
                /\ HintedProvider(Val(req[r]).provider, stability_key[r]) = STABILITY)

(* C15, amended: the same with the resolved provider being the lower-cased *)
(* hint when a non-empty hint is given, and otherwise "stability" if a     *)
(* credential is configured, else "demo".                                  *)
C15_LiveIffCredentialAndNonEmptyHint ==
    \A r \in Reqs :
        Routed(r) =>
            (LiveIssued(r) <=>
                /\ Truthy(stability_key[r])
                /\ NonEmptyHintedProvider(Val(req[r]).provider, stability_key[r])
                       = STABILITY)

\* With a credential: a hint of "Stability" led to a live call.
C15_Witness ==
    \E r \in Reqs :
        /\ liveCalls[r] # <<>>
        /\ Truthy(stability_key[r])
        /\ Val(req[r]).provider = Some(<<"S", "t", "a", "b", "i", "l", "i", "t", "y">>)

(* C16: a live call answered with any 2xx status ends in a result with     *)
(* mode = live, provider "stability", the model identifier and no note.    *)
(* Violated: the code accepts 200 only and turns any other 2xx answer      *)
(* into a 500 error.                                                       *)
C16_Any2xxIsLiveSuccess ==
    \A r \in Reqs :
        /\ Done(r)
        /\ liveCalls[r] # <<>>
        /\ liveCalls[r][1].outcome = "response"
        /\ Is2xx(liveCalls[r][1].status)
        => /\ IsResult(r)
           /\ response[r].mode = "live"
           /\ response[r].provider = STABILITY
           /\ response[r].model = Some(MODEL_NAME)
           /\ response[r].note = None

IsCreate(c) == c.op = "create_document"

(* C17: whenever a live call is due or was issued, the storage write was   *)
(* attempted exactly once, as the first storage attempt of the request,    *)
(* and has ended (written, failed, or the module absent); and no write is  *)
(* pending once a live call was issued.                                    *)
C17_PersistBeforeLive ==
    \A r \in Reqs :
        /\ LiveIssued(r) =>
            /\ Len(SelectSeq(dbCalls[r], IsCreate)) = 1
            /\ IsCreate(dbCalls[r][1])
            /\ dbCalls[r][1].outcome \in {"absent", "fail", "ok"}
        /\ pc[r] = "persist" => liveCalls[r] = <<>>

\* A live call is due, no live call was made yet, and the one storage
\* write has already failed.
C17_Witness ==
    \E r \in Reqs :
        /\ pc[r] = "live"
        /\ liveCalls[r] = <<>>
        /\ Len(dbCalls[r]) = 1
        /\ dbCalls[r][1].outcome = "fail"

(* C18: every live call carries aspect_ratio = 1:1, whatever width and     *)
(* height the request asked for.                                           *)
C18_AspectRatioIsSquare ==
    \A r \in Reqs :
        \A i \in DOMAIN liveCalls[r] : liveCalls[r][i].aspect_ratio = "1:1"

\* A live call was made for a request of width 128 and height 1024.
C18_Witness ==
    \E r \in Reqs :
        /\ liveCalls[r] # <<>>
        /\ Val(req[r]).width = Some(MinDim)
        /\ Val(req[r]).height = Some(MaxDim)

(* C19: every stock-image call carries the width and height of the         *)
(* request as validated and the seed of the request's stripped prompt,     *)
(* also after a failed live call and the relabelling to demo.              *)
C19_StockCallCarriesRequest ==
    \A r \in Reqs :
        \A i \in DOMAIN stockCalls[r] :
            /\ stockCalls[r][i].url.width = Val(req[r]).width
            /\ stockCalls[r][i].url.height = Val(req[r]).height
            /\ stockCalls[r][i].url.seed = Sha256Mod(Strip(Val(req[r]).prompt))

\* After a failed live call and the relabelling, a stock call was made for
\* a request of width 1024 and height 128.
C19_Witness ==
    \E r \in Reqs :
        /\ stockCalls[r] # <<>>
        /\ liveCalls[r] # <<>>
        /\ provider[r] = DEMO
        /\ Val(req[r]).width = Some(MaxDim)
        /\ Val(req[r]).height = Some(MinDim)
        /\ stockCalls[r][1].url.width = Some(MaxDim)

====
